---------------------------- MODULE Spec2Model ----------------------------
(***************************************************************************)
(* Model of the segment detection engine of forsenvods (src/main.py):      *)
(* the similarity judge, the identity extractor, the scan loop with its    *)
(* two boundary searches, the segment merger and the minimum-duration      *)
(* filter of the main program.                                             *)
(*                                                                         *)
(* Python strings are sequences of one-character strings, so that len(),   *)
(* lower(), startswith(), slicing and the similarity ratio are computed    *)
(* character by character.  Python's None is the value None below, which   *)
(* is no sequence of characters.  The character classes of Python that     *)
(* depend on Unicode (\w, \s, str.lower, str.strip) are given for the       *)
(* characters U+0000..U+00FF; the OCR engine is called with a white list   *)
(* of ASCII characters.                                                    *)
(***************************************************************************)
EXTENDS Integers, Sequences, FiniteSets, TLC

\* ------------------------------------------------------------------------
\* Characters and strings
\* ------------------------------------------------------------------------

None == <<"None">>

EmptyStr == << >>

UpperSeq == <<"A","B","C","D","E","F","G","H","I","J","K","L","M",
              "N","O","P","Q","R","S","T","U","V","W","X","Y","Z">>

LowerSeq == <<"a","b","c","d","e","f","g","h","i","j","k","l","m",
              "n","o","p","q","r","s","t","u","v","w","x","y","z">>

Letters == {UpperSeq[k] : k \in 1..26} \cup {LowerSeq[k] : k \in 1..26}

Digits == {"0","1","2","3","4","5","6","7","8","9"}

\* [a-zA-Z0-9_-]
IdChars == Letters \cup Digits \cup {"_", "-"}

\* the upper-case letters of U+0080..U+00FF that str.lower() changes
Latin1UpperSeq == <<"À","Á","Â","Ã","Ä","Å","Æ","Ç","È","É","Ê","Ë","Ì","Í","Î","Ï","Ð","Ñ","Ò","Ó","Ô","Õ","Ö","Ø","Ù","Ú","Û","Ü","Ý","Þ">>

\* what str.lower() makes of them
Latin1LowerSeq == <<"à","á","â","ã","ä","å","æ","ç","è","é","ê","ë","ì","í","î","ï","ð","ñ","ò","ó","ô","õ","ö","ø","ù","ú","û","ü","ý","þ">>

\* the other characters of U+0080..U+00FF that \w matches
Latin1OtherWord == {"ª","²","³","µ","¹","º","¼","½","¾","ß","ÿ"}

\* \w of a str pattern
WordChars ==
    Letters \cup Digits \cup {"_"} \cup Latin1OtherWord
        \cup {Latin1UpperSeq[k] : k \in 1..Len(Latin1UpperSeq)}
        \cup {Latin1LowerSeq[k] : k \in 1..Len(Latin1LowerSeq)}

\* \s of a str pattern, also the characters str.strip() removes: tab, line
\* feed, U+000B, form feed, carriage return, U+001C..U+001F, space, U+0085
\* and U+00A0
Whitespace == {"\t", "\n", "", "\f", "\r", "", "", "", "", " ", "", " "}

\* [\w\s\[\]\(\)\-\+\.,;:!?], the characters a replacement title may contain
CleanTitleChars ==
    WordChars \cup Whitespace \cup {"[", "]", "(", ")", "-", "+", ".", ",", ";", ":", "!", "?"}

\* str.lower() on one character
LowerChar(c) ==
    IF \E k \in 1..26 : UpperSeq[k] = c
    THEN LowerSeq[CHOOSE k \in 1..26 : UpperSeq[k] = c]
    ELSE IF \E k \in 1..Len(Latin1UpperSeq) : Latin1UpperSeq[k] = c
    THEN Latin1LowerSeq[CHOOSE k \in 1..Len(Latin1UpperSeq) : Latin1UpperSeq[k] = c]
    ELSE c

\* str.lower()
lower(s) == [k \in 1..Len(s) |-> LowerChar(s[k])]

\* str.strip()
RECURSIVE strip(_)
strip(s) ==
    IF s = << >> THEN s
    ELSE IF s[1] \in Whitespace THEN strip(Tail(s))
    ELSE IF s[Len(s)] \in Whitespace THEN strip(SubSeq(s, 1, Len(s) - 1))
    ELSE s

\* str.replace('\n', ' ')
replace_newlines(s) == [k \in 1..Len(s) |-> IF s[k] = "\n" THEN " " ELSE s[k]]

\* str.startswith(prefix)
startswith(s, prefix) ==
    /\ Len(s) >= Len(prefix)
    /\ SubSeq(s, 1, Len(prefix)) = prefix

\* s[:n]
Prefix(s, n) == SubSeq(s, 1, IF n < Len(s) THEN n ELSE Len(s))

\* Python truthiness of an optional string: neither None nor ""
Truthy(s) == s # None /\ s # EmptyStr

Max(a, b) == IF a >= b THEN a ELSE b

Min(a, b) == IF a <= b THEN a ELSE b

\* ------------------------------------------------------------------------
\* Configuration
\* ------------------------------------------------------------------------

INTERVAL_SECONDS == 3

\* 0.4 as the fraction 4/10
SIMILARITY_THRESHOLD == <<4, 10>>

FRAME_JUMP == 10

MAX_GAP_SECONDS == 60

MIN_SEGMENT_DURATION == 5

\* the rapidfuzz import at the top of main.py fails when the package is not
\* installed, and the program then scores with difflib.SequenceMatcher
USING_RAPIDFUZZ == FALSE

\* ------------------------------------------------------------------------
\* String similarity (difflib.SequenceMatcher(None, a, b).ratio())
\* ------------------------------------------------------------------------

\* autojunk: when b has 200 characters or more, the characters that occur in
\* it more than len(b) // 100 + 1 times are left out of the index of b
Popular(b) ==
    IF Len(b) >= 200
    THEN {b[k] : k \in {n \in 1..Len(b) :
              Cardinality({m \in 1..Len(b) : b[m] = b[n]}) > Len(b) \div 100 + 1}}
    ELSE {}

\* length of the common run of a[i..ahi] and b[j..bhi] over the characters
\* that are in the index of b
RECURSIVE CommonRun(_, _, _, _, _, _, _)
CommonRun(a, b, i, ahi, j, bhi, popular) ==
    IF i > ahi \/ j > bhi THEN 0
    ELSE IF a[i] # b[j] \/ b[j] \in popular THEN 0
    ELSE 1 + CommonRun(a, b, i + 1, ahi, j + 1, bhi, popular)

\* number of equal characters by which the block before a[i], b[j] grows to
\* the left, down to a[alo], b[blo]
RECURSIVE GrowLeft(_, _, _, _, _, _)
GrowLeft(a, b, i, alo, j, blo) ==
    IF i <= alo \/ j <= blo THEN 0
    ELSE IF a[i - 1] # b[j - 1] THEN 0
    ELSE 1 + GrowLeft(a, b, i - 1, alo, j - 1, blo)

\* number of equal characters by which a block grows to the right from
\* a[i], b[j], up to a[ahi], b[bhi]
RECURSIVE GrowRight(_, _, _, _, _, _)
GrowRight(a, b, i, ahi, j, bhi) ==
    IF i > ahi \/ j > bhi THEN 0
    ELSE IF a[i] # b[j] THEN 0
    ELSE 1 + GrowRight(a, b, i + 1, ahi, j + 1, bhi)

\* find_longest_match: the longest block a[i..i+k-1] = b[j..j+k-1] of indexed
\* characters inside a[alo..ahi], b[blo..bhi]; of the longest, the one
\* earliest in a, then in b (without any, the empty block at alo, blo); the
\* block found is then grown over the equal characters on its two sides
LongestMatch(a, b, alo, ahi, blo, bhi) ==
    LET popular == Popular(b)
        cand == {<<i, j, CommonRun(a, b, i, ahi, j, bhi, popular)>> :
                    <<i, j>> \in {p \in (alo..ahi) \X (blo..bhi) :
                                     a[p[1]] = b[p[2]] /\ b[p[2]] \notin popular}}
        best == CHOOSE p \in cand :
                    \A q \in cand :
                        \/ p[3] > q[3]
                        \/ /\ p[3] = q[3]
                           /\ \/ p[1] < q[1]
                              \/ p[1] = q[1] /\ p[2] <= q[2]
        seed == IF cand = {} THEN <<alo, blo, 0>> ELSE best
        left == GrowLeft(a, b, seed[1], alo, seed[2], blo)
        right == GrowRight(a, b, seed[1] + seed[3], ahi, seed[2] + seed[3], bhi)
    IN  <<seed[1] - left, seed[2] - left, left + seed[3] + right>>

\* get_matching_blocks: total size of the blocks found by matching the longest
\* block and then, recursively, the pieces to its left and to its right
RECURSIVE MatchedChars(_, _, _, _, _, _)
MatchedChars(a, b, alo, ahi, blo, bhi) ==
    LET m == LongestMatch(a, b, alo, ahi, blo, bhi)
    IN  IF m[3] = 0
        THEN 0
        ELSE m[3] + MatchedChars(a, b, alo, m[1] - 1, blo, m[2] - 1)
                  + MatchedChars(a, b, m[1] + m[3], ahi, m[2] + m[3], bhi)

\* ratio() = 2.0 * matches / (len(a) + len(b)), as the fraction <<num, den>>
SequenceMatcherRatio(a, b) ==
    <<2 * MatchedChars(a, b, 1, Len(a), 1, Len(b)), Len(a) + Len(b)>>

\* the fraction x is at least the fraction y (denominators positive)
RatioGeq(x, y) == x[1] * y[2] >= y[1] * x[2]

calculate_similarity(str1, str2) ==
    IF ~Truthy(str1) \/ ~Truthy(str2)
    THEN <<0, 1>>
    ELSE SequenceMatcherRatio(str1, str2)

\* ------------------------------------------------------------------------
\* Similarity judge
\* ------------------------------------------------------------------------

NoTitle == <<"N","o"," ","T","i","t","l","e">>

\* is_similar_title without the two tests on the "No Title" sentinel
is_similar_title_no_sentinel(title1, title2) ==
    IF ~Truthy(title1) \/ ~Truthy(title2) THEN FALSE
    ELSE IF title1 = title2 THEN TRUE
    ELSE RatioGeq(calculate_similarity(title1, title2), SIMILARITY_THRESHOLD)

is_similar_title(title1, title2) ==
    IF ~Truthy(title1) \/ ~Truthy(title2) THEN FALSE
    ELSE IF title1 = NoTitle /\ title2 # NoTitle THEN FALSE
    ELSE IF title2 = NoTitle /\ title1 # NoTitle THEN FALSE
    ELSE IF title1 = title2 THEN TRUE
    ELSE RatioGeq(calculate_similarity(title1, title2), SIMILARITY_THRESHOLD)

angl == <<"a","n","g","l">>
anyl == <<"a","n","y","l">>
impwa == <<"i","m","p","w","a">>
impma == <<"i","m","p","m","a">>
impa == <<"i","m","p","a">>
imym == <<"i","m","y","m">>

\* is_same_youtube_id with the exact comparison ahead of the test on None
is_same_youtube_id_exact_first(id1, id2) ==
    \/ id1 = id2
    \/ /\ id1 # None
       /\ id2 # None
       /\ lower(id1) = lower(id2)

is_same_youtube_id(id1, id2) ==
    IF id1 = None \/ id2 = None THEN FALSE
    ELSE IF id1 = id2 THEN TRUE
    ELSE
      LET l1 == lower(id1)
          l2 == lower(id2)
      IN  \/ startswith(l1, angl) /\ startswith(l2, angl)
          \/ startswith(l1, angl) /\ startswith(l2, anyl)
          \/ startswith(l1, anyl) /\ startswith(l2, angl)
          \/ startswith(l1, impwa) /\ startswith(l2, impwa)
          \/ startswith(l1, impma) /\ startswith(l2, impwa)
          \/ startswith(l1, impa) /\ startswith(l2, impwa)
          \/ startswith(l1, imym) /\ startswith(l2, impwa)
          \/ startswith(l1, imym) /\ startswith(l2, impma)
          \/ l1 = l2
          \/ Len(id1) >= 5 /\ Len(id2) >= 5 /\ Prefix(l1, 5) = Prefix(l2, 5)
          \/ RatioGeq(calculate_similarity(id1, id2), SIMILARITY_THRESHOLD)

\* ------------------------------------------------------------------------
\* Identity extractor
\* ------------------------------------------------------------------------

NoneStr == <<"N","o","n","e">>
youtube == <<"y","o","u","t","u","b","e">>
youtube_com == <<"y","o","u","t","u","b","e",".","c","o","m">>
watch_v == <<"y","o","u","t","u","b","e",".","c","o","m","/","w","a","t","c","h","?","v","=">>
youtu_be == <<"y","o","u","t","u",".","b","e","/">>
embed == <<"y","o","u","t","u","b","e",".","c","o","m","/","e","m","b","e","d","/">>
old_embed == <<"y","o","u","t","u","b","e",".","c","o","m","/","v","/">>
user_page == <<"y","o","u","t","u","b","e",".","c","o","m","/","u","s","e","r","/">>
v_eq == <<"v","=">>
http == <<"h","t","t","p",":","/","/">>
https == <<"h","t","t","p","s",":","/","/">>
www == <<"w","w","w",".">>

\* the literal lit stands in s at position p
LitAt(s, p, lit) ==
    /\ p >= 1
    /\ p + Len(lit) - 1 <= Len(s)
    /\ SubSeq(s, p, p + Len(lit) - 1) = lit

\* length of the longest run of characters of class cls in s from position p
RECURSIVE RunLen(_, _, _)
RunLen(s, p, cls) ==
    IF p > Len(s) \/ s[p] \notin cls THEN 0 ELSE 1 + RunLen(s, p + 1, cls)

\* the alternatives of prefixes that stand at p followed by >= n id characters
MatchesAt(s, p, prefixes, n) ==
    {k \in 1..Len(prefixes) :
        /\ LitAt(s, p, prefixes[k])
        /\ RunLen(s, p + Len(prefixes[k]), IdChars) >= n}

\* re.search(r'(?:prefix1|prefix2|...)([a-zA-Z0-9_-]{n,})', s) finds a match
HasMatch(s, prefixes, n) ==
    \E p \in 1..Len(s) : MatchesAt(s, p, prefixes, n) # {}

\* the leftmost match: <<position, position of the id run>>
FirstMatch(s, prefixes, n) ==
    LET p == CHOOSE q \in 1..Len(s) :
                 /\ MatchesAt(s, q, prefixes, n) # {}
                 /\ \A r \in 1..(q - 1) : MatchesAt(s, r, prefixes, n) = {}
        ks == MatchesAt(s, p, prefixes, n)
        k == CHOOSE x \in ks : \A y \in ks : x <= y
    IN  <<p, p + Len(prefixes[k])>>

\* group(1) of ...([a-zA-Z0-9_-]{11})
Group11(s, prefixes) ==
    LET m == FirstMatch(s, prefixes, 11) IN SubSeq(s, m[2], m[2] + 10)

\* group(1) of ...([a-zA-Z0-9_-]{n,}), greedy
GroupRun(s, prefixes, n) ==
    LET m == FirstMatch(s, prefixes, n)
    IN  SubSeq(s, m[2], m[2] + RunLen(s, m[2], IdChars) - 1)

\* the whole leftmost match of prefix[a-zA-Z0-9_-]+
WholeMatch(s, prefixes) ==
    LET m == FirstMatch(s, prefixes, 1)
    IN  SubSeq(s, m[1], m[2] + RunLen(s, m[2], IdChars) - 1)

\* position of the id in youtube\.com/user/\w+/\w+/([a-zA-Z0-9_-]{11}) matched
\* at p, or 0
UserPageAt(s, p) ==
    IF ~LitAt(s, p, user_page) THEN 0
    ELSE LET q1 == p + Len(user_page)
             w1 == RunLen(s, q1, WordChars)
             q2 == q1 + w1 + 1
             w2 == RunLen(s, q2, WordChars)
             q3 == q2 + w2 + 1
         IN  IF /\ w1 >= 1
                /\ LitAt(s, q1 + w1, <<"/">>)
                /\ w2 >= 1
                /\ LitAt(s, q2 + w2, <<"/">>)
                /\ RunLen(s, q3, IdChars) >= 11
             THEN q3
             ELSE 0

\* re.match(r'^[a-zA-Z0-9_-]{5,}$', url): five id characters or more up to
\* the end of url, where $ also stands before one last line feed
WholeIsId(url) ==
    LET ids == RunLen(url, 1, IdChars)
    IN  /\ ids >= 5
        /\ \/ ids = Len(url)
           \/ ids = Len(url) - 1 /\ url[Len(url)] = "\n"

extract_youtube_id(url) ==
    IF ~Truthy(url) \/ url = NoneStr THEN None
    ELSE IF lower(url) \in {youtube, youtube_com} THEN None
    ELSE IF HasMatch(url, <<watch_v, youtu_be>>, 11) THEN Group11(url, <<watch_v, youtu_be>>)
    ELSE IF HasMatch(url, <<embed>>, 11) THEN Group11(url, <<embed>>)
    ELSE IF HasMatch(url, <<old_embed>>, 11) THEN Group11(url, <<old_embed>>)
    ELSE IF \E p \in 1..Len(url) : UserPageAt(url, p) > 0
      THEN LET p == CHOOSE q \in 1..Len(url) :
                        /\ UserPageAt(url, q) > 0
                        /\ \A r \in 1..(q - 1) : UserPageAt(url, r) = 0
               g == UserPageAt(url, p)
           IN  SubSeq(url, g, g + 10)
    ELSE IF HasMatch(url, <<watch_v>>, 5) THEN GroupRun(url, <<watch_v>>, 5)
    ELSE IF HasMatch(url, <<youtu_be>>, 5) THEN GroupRun(url, <<youtu_be>>, 5)
    ELSE IF WholeIsId(url) THEN url
    ELSE IF HasMatch(url, <<v_eq>>, 5) THEN GroupRun(url, <<v_eq>>, 5)
    ELSE None

\* the text get_youtube_url_from_frame derives from the OCR text of the
\* identity region (None when the OCR failed)
UrlOrText(extracted_text) ==
    LET full == <<https \o www \o watch_v, https \o watch_v,
                  http \o www \o watch_v, http \o watch_v>>
        short == <<https \o youtu_be, http \o youtu_be>>
    IN  IF ~Truthy(extracted_text) THEN NoneStr
        ELSE IF HasMatch(extracted_text, full, 1) THEN WholeMatch(extracted_text, full)
        ELSE IF HasMatch(extracted_text, short, 1) THEN WholeMatch(extracted_text, short)
        ELSE IF HasMatch(extracted_text, <<watch_v>>, 1) THEN WholeMatch(extracted_text, <<watch_v>>)
        ELSE extracted_text

\* ------------------------------------------------------------------------
\* Segment merger: helpers of merge_similar_segments
\* ------------------------------------------------------------------------
\* A raw segment is the tuple
\*   <<youtube_id, start_time, end_time, title, start_frame, end_frame>>
\* and a merged segment the tuple <<youtube_id, start_time, end_time, title>>.

\* sorted(segments, key=lambda x: x[1]): stable, by start time
RECURSIVE InsertByStart(_, _)
InsertByStart(sorted, x) ==
    IF sorted = << >> THEN <<x>>
    ELSE IF sorted[Len(sorted)][2] <= x[2] THEN Append(sorted, x)
    ELSE Append(InsertByStart(SubSeq(sorted, 1, Len(sorted) - 1), x),
                sorted[Len(sorted)])

\* the segments left in the order given
SortedByStart_unsorted(segs) == segs

RECURSIVE SortedByStart(_)
SortedByStart(segs) ==
    IF segs = << >> THEN << >>
    ELSE InsertByStart(SortedByStart(SubSeq(segs, 1, Len(segs) - 1)),
                       segs[Len(segs)])

\* time_gap = next_start - curr_end
time_gap(cur, next_seg) == next_seg[2] - cur[3]

\* a merge decision that asks for both matches
should_merge_both(cur, next_seg) ==
    /\ time_gap(cur, next_seg) <= MAX_GAP_SECONDS
    /\ is_same_youtube_id(cur[1], next_seg[1])
    /\ is_similar_title(cur[4], next_seg[4])

\* should_merge = time_gap <= MAX_GAP_SECONDS and (ids_match or titles_match)
should_merge(cur, next_seg) ==
    LET ids_match == is_same_youtube_id(cur[1], next_seg[1])
        titles_match == is_similar_title(cur[4], next_seg[4])
    IN  time_gap(cur, next_seg) <= MAX_GAP_SECONDS /\ (ids_match \/ titles_match)

\* id_to_use = curr_id if len(curr_id) >= len(next_id) else next_id
id_to_use(curr_id, next_id) ==
    IF Len(curr_id) >= Len(next_id) THEN curr_id ELSE next_id

\* a title choice that takes the longer title whatever its characters
title_to_use_longer(curr_title, next_title) ==
    IF /\ Truthy(next_title)
       /\ Len(next_title) > Len(IF Truthy(curr_title) THEN curr_title ELSE EmptyStr)
    THEN next_title
    ELSE curr_title

\* the title kept on a merge: the next title when it is longer than the
\* current one and holds none but clean characters, else the current title
title_to_use(curr_title, next_title) ==
    IF /\ Truthy(next_title)
       /\ Len(next_title) > Len(IF Truthy(curr_title) THEN curr_title ELSE EmptyStr)
       /\ \A k \in 1..Len(next_title) : next_title[k] \in CleanTitleChars
    THEN next_title
    ELSE curr_title

\* curr_end = next_end
merged_end(curr_end, next_end) == next_end

\* the accumulator after the next segment is merged into it
MergeInto(cur, next_seg) ==
    <<id_to_use(cur[1], next_seg[1]),
      cur[2],
      merged_end(cur[3], next_seg[3]),
      title_to_use(cur[4], next_seg[4]),
      cur[5],
      next_seg[6]>>

\* a filter test that lets every segment with a positive duration through
LongEnough_positive(seg) == seg[3] - seg[2] > 0

\* duration >= MIN_SEGMENT_DURATION, the test of the main program's filter
LongEnough(seg) == seg[3] - seg[2] >= MIN_SEGMENT_DURATION

\* the segments the main program keeps
RECURSIVE FilterSegments(_)
FilterSegments(segs) ==
    IF segs = << >> THEN << >>
    ELSE LET rest == FilterSegments(SubSeq(segs, 2, Len(segs)))
         IN  IF LongEnough(segs[1]) THEN <<segs[1]>> \o rest ELSE rest

\* ------------------------------------------------------------------------
\* Inputs of the merger specification
\* ------------------------------------------------------------------------

\* longest list of raw segments handed to the merger
MaxSegs == 2

IdA == <<"a","b","c","d","e">>
IdA2 == <<"a","b","c","d","e","X","Y">>
IdB == <<"z","z","z","z","z","z">>
TitleCat == <<"C","a","t">>
TitleDog == <<"D","o","g","!">>
TitleCatX == <<"C","a","t","|","x">>

MergeIds == {IdA, IdA2, IdB}

MergeTitles == {TitleCat, TitleDog, TitleCatX}

\* <<start_frame, end_frame>> of the raw segments tried
Spans == {<<0, 1>>, <<0, 10>>, <<5, 8>>, <<21, 22>>, <<22, 30>>}

RawSegment(id, span, title) ==
    <<id, span[1] * INTERVAL_SECONDS, span[2] * INTERVAL_SECONDS, title, span[1], span[2]>>

RawSegments == {RawSegment(id, sp, ti) : id \in MergeIds, sp \in Spans, ti \in MergeTitles}

\* the two raw segments of the merge example of the specification
ExampleList ==
    << <<<<"A","B","1","2","3","4","5","X","Y","Z","9">>, 0, 100, <<"F","u","n","n","y"," ","M","o","m","e","n","t">>, 0, 33>>,
       <<<<"A","B","1","2","3","4","S","X","Y","Z","9">>, 102, 200, <<"F","u","n","n","y"," ","M","o","m","e","n","t","!">>, 34, 66>> >>

RawLists == UNION {[1..n -> RawSegments] : n \in 0..MaxSegs} \cup {ExampleList}

\* ------------------------------------------------------------------------
\* State
\* ------------------------------------------------------------------------

VARIABLES
    pc,                   \* control point of the program
    total_frames,         \* find_youtube_segments: number of frame files
    frames,               \* per frame file, the OCR text of its two regions
    video,                \* per frame, what ffmpeg extracts from the video
    frame_index,          \* find_youtube_segments: frame_index
    last_segment_end,     \* find_youtube_segments: last_segment_end
    raw_segments,         \* find_youtube_segments: raw_segments
    last_title,           \* the global last_title
    youtube_id,           \* find_youtube_segments: youtube_id
    title,                \* find_youtube_segments: title
    start,                \* the binary searches: start
    end,                  \* the binary searches: end
    result,               \* the binary searches: result
    current_frame,        \* find_segment_end: current_frame
    last_matching_frame,  \* find_segment_end: last_matching_frame
    segment_start_frame,  \* find_youtube_segments: segment_start_frame
    segment_end_frame,    \* find_youtube_segments: segment_end_frame
    caller,               \* who called merge_similar_segments
    segments,             \* merge_similar_segments: its argument
    sorted_segments,      \* merge_similar_segments: sorted_segments
    i,                    \* merge_similar_segments: i
    j,                    \* merge_similar_segments: j
    curr,                 \* merge_similar_segments: curr_id, curr_start, ...
    merged_count,         \* merge_similar_segments: merged_count
    all_merged_segments,  \* merge_similar_segments: all_merged_segments
    merged_segments,      \* what find_youtube_segments returned
    filtered_segments,    \* the main program's filtered_segments
    remerged,             \* the merger's result on its own result
    cache,                \* the OCR cache: a function from cache keys to values
    cache_file,           \* the content of the cache file, NoFile when there is none
    effects,              \* the calls made so far to the OCR and to the cache file
    call,                 \* a call of a pure function: <<name, arguments>>
    answer,               \* what the call returned, Pending before it returns
    idx,                  \* detect_segments: idx
    current_id,           \* detect_segments: current_id
    current_title,        \* detect_segments: current_title
    seg_start,            \* detect_segments: seg_start
    run                   \* detect_segments: which run over the recording this is

scanVars == <<total_frames, frames, video, frame_index, last_segment_end, raw_segments,
              last_title, youtube_id, title, start, end, result, current_frame,
              last_matching_frame, segment_start_frame, segment_end_frame>>

mergeVars == <<caller, segments, sorted_segments, i, j, curr, merged_count,
               all_merged_segments>>

cacheVars == <<cache, cache_file, effects>>

pureVars == <<call, answer>>

streamVars == <<idx, current_id, current_title, seg_start, run>>

vars == <<pc, scanVars, mergeVars, merged_segments, filtered_segments, remerged,
          cacheVars, pureVars, streamVars>>

\* ------------------------------------------------------------------------
\* Reading a frame
\* ------------------------------------------------------------------------

\* frames the start search looks back at most (the literal 30)
LOOKBACK_FRAMES == 30

\* frames added after an end that no other identity follows (the literal 5)
END_BUFFER_FRAMES == 5

\* shortest raw segment recorded, in seconds (the literal 2)
MIN_RAW_DURATION == 2

\* the frame file of index exists
FrameExists(index) == index >= 0 /\ index < total_frames

\* the outcome of an OCR call that raises
OcrFails == <<"raises">>

\* no cache file on disk
NoFile == <<"no file">>

\* a cache file that holds the JSON text of object
JsonFile(object) == <<"json", object>>

\* a cache file whose text is not JSON
Unparsable == <<"unparsable">>

\* json.load and json.loads raise on the text of the file
ParseFails(file) == file[1] = "unparsable"

\* load_cache: the object in the cache file, an empty cache without a file
load_cache(file) == IF file = NoFile THEN << >> ELSE file[2]

\* the frame files after extract_frames_from_video: ffmpeg writes those of
\* the video when the directory holds none
extract_frames_from_video(files, recording) ==
    IF files = << >> THEN recording ELSE files

\* a cache key that is a string: str(index), and any key read from JSON
StrKey(index) == <<"str", index>>

\* no file of the title region for the frame
NoTitleFile == <<"no title file">>

\* os.path.exists(title_path)
TitleFileExists(index) == frames[index + 1][2] # NoTitleFile

\* get_text_from_image on the identity region (1) or the title region (2) of
\* the frame: None when the image cannot be read or the engine raises, else
\* the text of the engine, stripped and with its line feeds made blanks
get_text_from_image(index, region) ==
    IF frames[index + 1][region] = OcrFails
    THEN None
    ELSE replace_newlines(strip(frames[index + 1][region]))

\* what get_text_from_image reads in the identity region of the frame when
\* the frames are those of the video
text_of_video(index) ==
    IF video[index + 1][1] = OcrFails
    THEN None
    ELSE replace_newlines(strip(video[index + 1][1]))

\* the frame is read by OCR: its file exists and the cache does not hold it
CacheMiss(index) == FrameExists(index) /\ StrKey(index) \notin DOMAIN cache

\* what get_youtube_url_from_frame returns for the frame
get_youtube_url_from_frame(index) ==
    IF ~FrameExists(index) THEN NoneStr
    ELSE IF StrKey(index) \in DOMAIN cache THEN cache[StrKey(index)]
    ELSE UrlOrText(get_text_from_image(index, 1))

\* the cache after get_youtube_url_from_frame(index)
CacheAfter(index) ==
    IF CacheMiss(index)
    THEN cache @@ (StrKey(index) :> get_youtube_url_from_frame(index))
    ELSE cache

\* the identity get_youtube_id_from_frame returns for the frame
IdAt(index) == extract_youtube_id(get_youtube_url_from_frame(index))

\* last_title after get_youtube_id_from_frame(index): the title region is read
\* when the frame carries an identity and the file of the region exists
TitleAfter(index) ==
    IF IdAt(index) # None /\ TitleFileExists(index)
    THEN IF Truthy(get_text_from_image(index, 2))
         THEN get_text_from_image(index, 2)
         ELSE NoTitle
    ELSE last_title

\* the calls get_youtube_id_from_frame(index) adds: on a cache miss the OCR of
\* the identity region and save_cache, and with an identity the OCR of the
\* title region when its file exists
EffectsAfter(index) ==
    effects
        \o (IF CacheMiss(index) THEN <<<<index, "url">>, <<index, "write">>>> ELSE << >>)
        \o (IF IdAt(index) # None /\ TitleFileExists(index)
            THEN <<<<index, "title">>>> ELSE << >>)

\* the cache, the cache file and the calls after get_youtube_id_from_frame(index)
ReadFrame(index) ==
    /\ cache' = CacheAfter(index)
    /\ cache_file' = IF CacheMiss(index) THEN JsonFile(CacheAfter(index)) ELSE cache_file
    /\ effects' = EffectsAfter(index)

\* ------------------------------------------------------------------------
\* find_youtube_segments: the scan loop and the two boundary searches
\* ------------------------------------------------------------------------

\* a start window that forgets the previous segment
start_search_range_lookback_only(lse, index) == Max(0, index - LOOKBACK_FRAMES)

\* start_search_range = max(last_segment_end + 1, frame_index - 30)
start_search_range(lse, index) == Max(lse + 1, index - LOOKBACK_FRAMES)

\* mid = (start + end) // 2
Mid == (start + end) \div 2

\* a bracket that drops the sample under the probe with it
below_mid_skip == Mid - 2

\* end = mid - 1
below_mid == Mid - 1

\* start = mid + 1
above_mid == Mid + 1

\* the end of the segment after the look at the frame that follows it
buffered_end(segment_end, target_id, next_id) ==
    IF next_id # None /\ ~is_same_youtube_id(target_id, next_id)
    THEN segment_end
    ELSE Min(segment_end + END_BUFFER_FRAMES, total_frames - 1)

\* a test that records a raw segment of any duration
RawSegmentKept_any(duration) == duration >= 0

\* if duration >= 2
RawSegmentKept(duration) == duration >= MIN_RAW_DURATION

\* a scan that goes on at the buffered end itself
resume_at_end(buffered_end_frame) == buffered_end_frame

\* frame_index = buffered_end_frame + 1
resume_after(buffered_end_frame) == buffered_end_frame + 1

\* find_youtube_segments up to its loop: the frames are extracted when there
\* are none, counted, and the cache is loaded
ScanStart ==
    /\ pc = "start"
    /\ ~ParseFails(cache_file)
    /\ frames' = extract_frames_from_video(frames, video)
    /\ total_frames' = Len(frames')
    /\ cache' = load_cache(cache_file)
    /\ raw_segments' = << >>
    /\ frame_index' = 0
    /\ last_segment_end' = -1
    /\ pc' = "scan"
    /\ UNCHANGED <<video, last_title, youtube_id, title, start, end, result, current_frame,
                   last_matching_frame, segment_start_frame, segment_end_frame>>
    /\ UNCHANGED <<cache_file, effects, mergeVars, merged_segments, filtered_segments,
                   remerged, pureVars, streamVars>>

\* json.load raises on the cache file: nothing catches the exception, it
\* leaves find_youtube_segments and the program after the frames are counted
LoadRaise ==
    /\ pc = "start"
    /\ ParseFails(cache_file)
    /\ frames' = extract_frames_from_video(frames, video)
    /\ total_frames' = Len(frames')
    /\ pc' = "JSONDecodeError"
    /\ UNCHANGED <<video, frame_index, last_segment_end, raw_segments, last_title,
                   youtube_id, title, start, end, result, current_frame,
                   last_matching_frame, segment_start_frame, segment_end_frame>>
    /\ UNCHANGED <<cacheVars, mergeVars, merged_segments, filtered_segments,
                   remerged, pureVars, streamVars>>

\* one turn of the scan loop: read frame_index into youtube_id and title; on
\* an identity outside the last segment enter find_exact_start, else jump ahead
ScanStep ==
    /\ pc = "scan"
    /\ frame_index < total_frames
    /\ last_title' = TitleAfter(frame_index)
    /\ ReadFrame(frame_index)
    /\ youtube_id' = IdAt(frame_index)
    /\ title' = TitleAfter(frame_index)
    /\ IF IdAt(frame_index) # None /\ ~(raw_segments # << >> /\ frame_index <= last_segment_end)
       THEN /\ start' = start_search_range(last_segment_end, frame_index)
            /\ end' = frame_index
            /\ result' = frame_index
            /\ pc' = "find_exact_start"
            /\ UNCHANGED frame_index
       ELSE /\ frame_index' = frame_index + FRAME_JUMP
            /\ pc' = "scan"
            /\ UNCHANGED <<start, end, result>>
    /\ UNCHANGED <<total_frames, frames, video, last_segment_end, raw_segments, current_frame,
                   last_matching_frame, segment_start_frame, segment_end_frame>>
    /\ UNCHANGED <<mergeVars, merged_segments, filtered_segments, remerged,
                   pureVars, streamVars>>

\* the scan loop is over: the raw segments go to the merger
ScanDone ==
    /\ pc = "scan"
    /\ frame_index >= total_frames
    /\ segments' = raw_segments
    /\ caller' = "find_youtube_segments"
    /\ pc' = "merge"
    /\ UNCHANGED <<scanVars, cacheVars, pureVars, streamVars>>
    /\ UNCHANGED <<sorted_segments, i, j, curr, merged_count, all_merged_segments,
                   merged_segments, filtered_segments, remerged>>

\* find_exact_start: one probe of the binary search
StartProbe ==
    /\ pc = "find_exact_start"
    /\ start <= end
    /\ last_title' = TitleAfter(Mid)
    /\ ReadFrame(Mid)
    /\ IF is_same_youtube_id(IdAt(Mid), youtube_id)
       THEN /\ result' = Mid
            /\ end' = below_mid
            /\ UNCHANGED start
       ELSE /\ start' = above_mid
            /\ UNCHANGED <<end, result>>
    /\ UNCHANGED <<pc, total_frames, frames, video, frame_index, last_segment_end, raw_segments,
                   youtube_id, title, current_frame, last_matching_frame,
                   segment_start_frame, segment_end_frame>>
    /\ UNCHANGED <<mergeVars, merged_segments, filtered_segments, remerged,
                   pureVars, streamVars>>

\* find_exact_start returns; find_segment_end starts from the start found
StartReturn ==
    /\ pc = "find_exact_start"
    /\ start > end
    /\ segment_start_frame' = result
    /\ current_frame' = result
    /\ last_matching_frame' = result
    /\ pc' = "find_segment_end"
    /\ UNCHANGED <<total_frames, frames, video, frame_index, last_segment_end, raw_segments,
                   last_title, youtube_id, title, start, end, result, segment_end_frame>>
    /\ UNCHANGED <<mergeVars, merged_segments, filtered_segments, remerged,
                   cacheVars, pureVars, streamVars>>

\* find_segment_end: one jump of FRAME_JUMP frames; a frame that does not
\* match opens the binary search between the last match and that frame
EndStride ==
    /\ pc = "find_segment_end"
    /\ current_frame < total_frames
    /\ last_title' = TitleAfter(current_frame)
    /\ ReadFrame(current_frame)
    /\ IF is_same_youtube_id(IdAt(current_frame), youtube_id)
       THEN /\ last_matching_frame' = current_frame
            /\ current_frame' = current_frame + FRAME_JUMP
            /\ UNCHANGED <<pc, start, end, result>>
       ELSE /\ start' = last_matching_frame
            /\ end' = current_frame
            /\ result' = last_matching_frame
            /\ pc' = "find_end_search"
            /\ UNCHANGED <<current_frame, last_matching_frame>>
    /\ UNCHANGED <<total_frames, frames, video, frame_index, last_segment_end, raw_segments,
                   youtube_id, title, segment_start_frame, segment_end_frame>>
    /\ UNCHANGED <<mergeVars, merged_segments, filtered_segments, remerged,
                   pureVars, streamVars>>

\* an end one frame past the last frame
end_of_video_past == total_frames

\* return total_frames - 1
end_of_video == total_frames - 1

\* find_segment_end: the jumps ran past the last frame, which is returned
EndOfVideo ==
    /\ pc = "find_segment_end"
    /\ current_frame >= total_frames
    /\ segment_end_frame' = end_of_video
    /\ pc' = "buffer"
    /\ UNCHANGED <<total_frames, frames, video, frame_index, last_segment_end, raw_segments,
                   last_title, youtube_id, title, start, end, result, current_frame,
                   last_matching_frame, segment_start_frame>>
    /\ UNCHANGED <<mergeVars, merged_segments, filtered_segments, remerged,
                   cacheVars, pureVars, streamVars>>

\* find_segment_end: one probe of the binary search
EndProbe ==
    /\ pc = "find_end_search"
    /\ start <= end
    /\ last_title' = TitleAfter(Mid)
    /\ ReadFrame(Mid)
    /\ IF is_same_youtube_id(IdAt(Mid), youtube_id)
       THEN /\ result' = Mid
            /\ start' = above_mid
            /\ UNCHANGED end
       ELSE /\ end' = below_mid
            /\ UNCHANGED <<start, result>>
    /\ UNCHANGED <<pc, total_frames, frames, video, frame_index, last_segment_end, raw_segments,
                   youtube_id, title, current_frame, last_matching_frame,
                   segment_start_frame, segment_end_frame>>
    /\ UNCHANGED <<mergeVars, merged_segments, filtered_segments, remerged,
                   pureVars, streamVars>>

\* find_segment_end returns the last match of the binary search
EndReturn ==
    /\ pc = "find_end_search"
    /\ start > end
    /\ segment_end_frame' = result
    /\ pc' = "buffer"
    /\ UNCHANGED <<total_frames, frames, video, frame_index, last_segment_end, raw_segments,
                   last_title, youtube_id, title, start, end, result, current_frame,
                   last_matching_frame, segment_start_frame>>
    /\ UNCHANGED <<mergeVars, merged_segments, filtered_segments, remerged,
                   cacheVars, pureVars, streamVars>>

\* the frame after the end is read, the end is buffered, the raw segment is
\* recorded and the scan goes on after it
BufferEnd ==
    /\ pc = "buffer"
    /\ LET next_frame == segment_end_frame + 1
           next_youtube_id == IF next_frame < total_frames THEN IdAt(next_frame) ELSE None
           buffered_end_frame == buffered_end(segment_end_frame, youtube_id, next_youtube_id)
           start_time == segment_start_frame * INTERVAL_SECONDS
           end_time == buffered_end_frame * INTERVAL_SECONDS
       IN  /\ last_title' = IF next_frame < total_frames THEN TitleAfter(next_frame) ELSE last_title
           /\ IF next_frame < total_frames THEN ReadFrame(next_frame) ELSE UNCHANGED cacheVars
           /\ raw_segments' =
                  IF RawSegmentKept(end_time - start_time)
                  THEN Append(raw_segments,
                              <<youtube_id, start_time, end_time, title,
                                segment_start_frame, buffered_end_frame>>)
                  ELSE raw_segments
           /\ last_segment_end' = buffered_end_frame
           /\ frame_index' = resume_after(buffered_end_frame)
    /\ pc' = "scan"
    /\ UNCHANGED <<total_frames, frames, video, youtube_id, title, start, end, result,
                   current_frame, last_matching_frame, segment_start_frame,
                   segment_end_frame>>
    /\ UNCHANGED <<mergeVars, merged_segments, filtered_segments, remerged,
                   pureVars, streamVars>>

\* ------------------------------------------------------------------------
\* merge_similar_segments, one action per step of its loops
\* ------------------------------------------------------------------------

\* return result to the caller
MergeReturn(returned) ==
    IF caller = "find_youtube_segments"
    THEN /\ merged_segments' = returned
         /\ pc' = "returned"
         /\ UNCHANGED remerged
    ELSE /\ remerged' = returned
         /\ pc' = "returned_again"
         /\ UNCHANGED merged_segments

\* entry: an empty list returns at once, any other is sorted by start time
MergeStart ==
    /\ UNCHANGED <<scanVars, cacheVars, pureVars, streamVars>>
    /\ pc = "merge"
    /\ IF segments = << >>
       THEN /\ MergeReturn(<< >>)
            /\ UNCHANGED <<sorted_segments, all_merged_segments, i>>
       ELSE /\ sorted_segments' = SortedByStart(segments)
            /\ all_merged_segments' = << >>
            /\ i' = 0
            /\ pc' = "outer"
            /\ UNCHANGED <<merged_segments, remerged>>
    /\ UNCHANGED <<caller, segments, j, curr, merged_count, filtered_segments>>

\* head of the outer loop: take segment i as the accumulator, or return
MergeOuter ==
    /\ UNCHANGED <<scanVars, cacheVars, pureVars, streamVars>>
    /\ pc = "outer"
    /\ IF i < Len(sorted_segments)
       THEN IF Len(sorted_segments[i + 1]) = 6
            THEN /\ curr' = sorted_segments[i + 1]
                 /\ j' = i + 1
                 /\ merged_count' = 1
                 /\ pc' = "inner"
                 /\ UNCHANGED <<merged_segments, remerged>>
            ELSE \* the six-name unpacking of a tuple of another length raises
                 /\ pc' = "ValueError"
                 /\ UNCHANGED <<curr, j, merged_count, merged_segments, remerged>>
       ELSE /\ MergeReturn(all_merged_segments)
            /\ UNCHANGED <<curr, j, merged_count>>
    /\ UNCHANGED <<caller, segments, sorted_segments, i, all_merged_segments,
                   filtered_segments>>

\* one turn of the inner loop: merge segment j into the accumulator, or stop
MergeInner ==
    /\ UNCHANGED <<scanVars, cacheVars, pureVars, streamVars>>
    /\ pc = "inner"
    /\ IF j < Len(sorted_segments)
       THEN IF Len(sorted_segments[j + 1]) # 6
            THEN /\ pc' = "ValueError"
                 /\ UNCHANGED <<curr, j, merged_count>>
            ELSE IF should_merge(curr, sorted_segments[j + 1])
            THEN /\ curr' = MergeInto(curr, sorted_segments[j + 1])
                 /\ merged_count' = merged_count + 1
                 /\ j' = j + 1
                 /\ pc' = "inner"
            ELSE /\ pc' = "close"
                 /\ UNCHANGED <<curr, j, merged_count>>
       ELSE /\ pc' = "close"
            /\ UNCHANGED <<curr, j, merged_count>>
    /\ UNCHANGED <<caller, segments, sorted_segments, i, all_merged_segments,
                   merged_segments, filtered_segments, remerged>>

\* after the inner loop: append the accumulator, go on from segment j
MergeClose ==
    /\ UNCHANGED <<scanVars, cacheVars, pureVars, streamVars>>
    /\ pc = "close"
    /\ all_merged_segments' =
           Append(all_merged_segments, <<curr[1], curr[2], curr[3], curr[4]>>)
    /\ i' = j
    /\ pc' = "outer"
    /\ UNCHANGED <<caller, segments, sorted_segments, j, curr, merged_count,
                   merged_segments, filtered_segments, remerged>>

\* ------------------------------------------------------------------------
\* The main program: drop the segments shorter than MIN_SEGMENT_DURATION
\* ------------------------------------------------------------------------

FilterShort ==
    /\ UNCHANGED <<scanVars, cacheVars, pureVars, streamVars>>
    /\ pc = "returned"
    /\ filtered_segments' = FilterSegments(merged_segments)
    /\ pc' = "done"
    /\ UNCHANGED <<mergeVars, merged_segments, remerged>>

\* cleanup_directories, and the same removals in process_vod of
\* simple_vod_processor.py, while the program does not run: the directories
\* of the frames and the cache file are removed
cleanup_directories ==
    /\ pc \in {"start", "done", "JSONDecodeError",
              "detect_segments", "stream_returned", "stream_raised", "load_raised"}
    /\ frames' = << >>
    /\ cache_file' = NoFile
    /\ UNCHANGED <<pc, total_frames, video, frame_index, last_segment_end, raw_segments,
                   last_title, youtube_id, title, start, end, result, current_frame,
                   last_matching_frame, segment_start_frame, segment_end_frame>>
    /\ UNCHANGED <<cache, effects, mergeVars, merged_segments, filtered_segments,
                   remerged, pureVars, streamVars>>

\* the program is started again in the same directory: a new process, with
\* the files the last one left
RunProgram ==
    /\ pc \in {"done", "JSONDecodeError"}
    /\ pc' = "start"
    /\ total_frames' = 0
    /\ frame_index' = 0
    /\ last_segment_end' = -1
    /\ raw_segments' = << >>
    /\ last_title' = EmptyStr
    /\ youtube_id' = None
    /\ title' = EmptyStr
    /\ start' = 0
    /\ end' = 0
    /\ result' = 0
    /\ current_frame' = 0
    /\ last_matching_frame' = 0
    /\ segment_start_frame' = 0
    /\ segment_end_frame' = 0
    /\ caller' = "find_youtube_segments"
    /\ segments' = << >>
    /\ sorted_segments' = << >>
    /\ i' = 0
    /\ j' = 0
    /\ curr' = << >>
    /\ merged_count' = 0
    /\ all_merged_segments' = << >>
    /\ merged_segments' = << >>
    /\ filtered_segments' = << >>
    /\ remerged' = << >>
    /\ cache' = << >>
    /\ effects' = << >>
    /\ UNCHANGED <<frames, video, cache_file, pureVars, streamVars>>

\* ------------------------------------------------------------------------
\* The merger run once more, on the list it returned
\* ------------------------------------------------------------------------

MergeAgain ==
    /\ UNCHANGED <<scanVars, cacheVars, pureVars, streamVars>>
    /\ pc = "done"
    /\ caller = "find_youtube_segments"
    /\ caller' = "again"
    /\ segments' = merged_segments
    /\ pc' = "merge"
    /\ UNCHANGED <<sorted_segments, i, j, curr, merged_count, all_merged_segments,
                   merged_segments, filtered_segments, remerged>>

\* ------------------------------------------------------------------------
\* Specification of the merger on every list of raw segments
\* ------------------------------------------------------------------------

\* the scan before it has looked at any frame
ScanIdle ==
    /\ frame_index = 0
    /\ last_segment_end = -1
    /\ raw_segments = << >>
    /\ last_title = EmptyStr
    /\ youtube_id = None
    /\ title = EmptyStr
    /\ start = 0
    /\ end = 0
    /\ result = 0
    /\ current_frame = 0
    /\ last_matching_frame = 0
    /\ segment_start_frame = 0
    /\ segment_end_frame = 0

\* a directory without cache file: no cache file, an empty cache, no call
\* made
CacheIdle ==
    /\ cache = << >>
    /\ cache_file = NoFile
    /\ effects = << >>

\* the answer of a call that has not returned
Pending == <<"pending">>

\* no call of a pure function
PureIdle ==
    /\ call = << >>
    /\ answer = Pending

\* detect_segments before it is called
StreamIdle ==
    /\ idx = 0
    /\ current_id = None
    /\ current_title = EmptyStr
    /\ seg_start = 0
    /\ run = 1

InitMerge ==
    /\ pc = "merge"
    /\ total_frames = 0
    /\ frames = << >>
    /\ video = << >>
    /\ ScanIdle
    /\ CacheIdle
    /\ PureIdle
    /\ StreamIdle
    /\ caller = "find_youtube_segments"
    /\ segments \in RawLists
    /\ sorted_segments = << >>
    /\ i = 0
    /\ j = 0
    /\ curr = << >>
    /\ merged_count = 0
    /\ all_merged_segments = << >>
    /\ merged_segments = << >>
    /\ filtered_segments = << >>
    /\ remerged = << >>

NextMerge ==
    \/ MergeStart
    \/ MergeOuter
    \/ MergeInner
    \/ MergeClose
    \/ FilterShort
    \/ MergeAgain

SpecMerge == InitMerge /\ [][NextMerge]_vars

\* ------------------------------------------------------------------------
\* Specification of the detection run: scan, merge, filter
\* ------------------------------------------------------------------------

\* longest block of equal frames in a recording
MaxBlock == 3

\* frames without identity ahead of a late first block
LongLead == 36

\* frames without identity after the last block of a long recording
LongTail == 10

IdImym == <<"i","m","y","m","Q">>
IdImpwa == <<"i","m","p","w","a","Z">>

\* a frame: <<text of the engine for the identity region, text of the engine
\* for the title region or NoTitleFile>>
Blank == <<EmptyStr, EmptyStr>>

\* the text of the engine for a region that shows one line: the line and a
\* line feed
Printed(line) == IF line = EmptyStr THEN line ELSE line \o <<"\n">>

\* the frame that shows the identity and the title
Shot(identity, shown_title) ==
    <<Printed(identity),
      IF shown_title = NoTitleFile THEN NoTitleFile ELSE Printed(shown_title)>>

\* the two identities shown in a recording, each with its title
Casts ==
    { <<IdA, TitleCat, IdB, EmptyStr>>,
      <<IdA, TitleCat, IdA2, TitleCat>>,
      <<IdA, TitleCat, IdB, TitleCat>>,
      <<IdImym, TitleCat, IdImpwa, TitleDog>>,
      <<IdA, NoTitleFile, IdB, TitleCat>> }

\* n frames, all equal to f
Repeat(f, n) == [k \in 1..n |-> f]

\* a recording: frames without identity, a run of the first identity, frames
\* without identity, a run of the second identity, frames without identity
Recording(cast, lead, g0, l1, g1, l2, g2, tail) ==
    Repeat(Blank, lead + g0) \o Repeat(Shot(cast[1], cast[2]), l1) \o Repeat(Blank, g1)
        \o Repeat(Shot(cast[3], cast[4]), l2) \o Repeat(Blank, g2 + tail)

Recordings ==
    {Recording(cast, lead, g0, l1, g1, l2, g2, tail) :
        cast \in Casts, lead \in {0, LongLead}, tail \in {0, LongTail},
        g0 \in 0..MaxBlock, l1 \in 0..MaxBlock, g1 \in 0..MaxBlock,
        l2 \in 0..MaxBlock, g2 \in 0..MaxBlock}

\* the merger before it is called
MergeIdle ==
    /\ caller = "find_youtube_segments"
    /\ segments = << >>
    /\ sorted_segments = << >>
    /\ i = 0
    /\ j = 0
    /\ curr = << >>
    /\ merged_count = 0
    /\ all_merged_segments = << >>
    /\ merged_segments = << >>
    /\ filtered_segments = << >>
    /\ remerged = << >>

\* longest recording that is also started with a cache file in the directory
MaxStale == 3

\* a cache file left by a run on another recording
StaleFile == JsonFile(StrKey(0) :> IdA)

\* the program before it is started on the video recording: the frames are
\* extracted already or not, and there is no cache file or, when stale, one
\* that is not JSON or one of another recording
ProgramStart(recording, stale) ==
    /\ pc = "start"
    /\ video = recording
    /\ frames \in {<< >>, recording}
    /\ total_frames = 0
    /\ ScanIdle
    /\ MergeIdle
    /\ cache = << >>
    /\ cache_file \in {NoFile} \cup (IF stale THEN {Unparsable, StaleFile} ELSE {})
    /\ effects = << >>
    /\ PureIdle
    /\ StreamIdle

Init ==
    \E recording \in Recordings :
        ProgramStart(recording, Len(recording) <= MaxStale)

Next ==
    \/ ScanStart
    \/ LoadRaise
    \/ cleanup_directories
    \/ RunProgram
    \/ ScanStep
    \/ ScanDone
    \/ StartProbe
    \/ StartReturn
    \/ EndStride
    \/ EndOfVideo
    \/ EndProbe
    \/ EndReturn
    \/ BufferEnd
    \/ MergeStart
    \/ MergeOuter
    \/ MergeInner
    \/ MergeClose
    \/ FilterShort

Spec == Init /\ [][Next]_vars

\* ------------------------------------------------------------------------
\* The same scan on recordings with a late first block and a gap between
\* the two blocks of up to END_BUFFER_FRAMES - 1 frames, which the end buffer
\* of the first block does not bridge
\* ------------------------------------------------------------------------

\* frames without identity ahead of the first block
LateLead == LongLead + 2

\* longest gap between the two blocks
MaxGap == END_BUFFER_FRAMES - 1

GapRecordings ==
    {Recording(cast, LateLead, g0, l1, g1, l2, g2, 0) :
        cast \in Casts, g0 \in 0..MaxBlock, l1 \in 1..MaxBlock, g1 \in 0..MaxGap,
        l2 \in 0..MaxBlock, g2 \in {0, 1}}

InitGap ==
    \E recording \in GapRecordings : ProgramStart(recording, TRUE)

SpecGap == InitGap /\ [][Next]_vars

\* ------------------------------------------------------------------------
\* Specification of the boundary locator on the recording that shows one
\* identity from sample 10 to sample 40, entered at any sample of the run
\* ------------------------------------------------------------------------

\* longest recording of the locator specification
MaxTotal == 52

\* the first and the last sample that show the identity
RunSpan == <<10, 40>>

RunFirst == RunSpan[1]

RunLast == RunSpan[2]

IdRun == <<"A","B","C","D","E","1","2","3","4","5">>

\* identity IdRun at the samples RunFirst..RunLast of n, none elsewhere
RunRecording(n) ==
    [k \in 1..n |-> IF k - 1 >= RunFirst /\ k - 1 <= RunLast
                    THEN Shot(IdRun, TitleCat)
                    ELSE Blank]

InitLocate ==
    /\ pc = "scan"
    /\ total_frames \in (RunLast + 1)..MaxTotal
    /\ frames = RunRecording(total_frames)
    /\ video = frames
    /\ frame_index \in RunFirst..RunLast
    /\ last_segment_end = -1
    /\ raw_segments = << >>
    /\ last_title = EmptyStr
    /\ youtube_id = None
    /\ title = EmptyStr
    /\ start = 0
    /\ end = 0
    /\ result = 0
    /\ current_frame = 0
    /\ last_matching_frame = 0
    /\ segment_start_frame = 0
    /\ segment_end_frame = 0
    /\ MergeIdle
    /\ cache_file \in {NoFile, StaleFile}
    /\ cache = load_cache(cache_file)
    /\ effects = << >>
    /\ PureIdle
    /\ StreamIdle

\* the steps of the program in a directory whose cache file is JSON
NextLocate ==
    \/ ScanStart
    \/ cleanup_directories
    \/ RunProgram
    \/ ScanStep
    \/ ScanDone
    \/ StartProbe
    \/ StartReturn
    \/ EndStride
    \/ EndOfVideo
    \/ EndProbe
    \/ EndReturn
    \/ BufferEnd
    \/ MergeStart
    \/ MergeOuter
    \/ MergeInner
    \/ MergeClose
    \/ FilterShort

SpecLocate == InitLocate /\ [][NextLocate]_vars

\* ------------------------------------------------------------------------
\* Specification of the two boundary searches called on their own:
\* find_exact_start(frame_index, youtube_id, cache, total_frames,
\* last_segment_end) on an empty cache or one load_cache read from a file,
\* then find_segment_end on the start it returns, for a sample that shows an
\* identity, either identity of the cast as the target, and a previous
\* segment that ends before the recording or at the sample itself
\* ------------------------------------------------------------------------

BoundaryCasts ==
    { <<IdA, TitleCat, IdB, EmptyStr>>,
      <<IdA, TitleCat, IdA2, TitleCat>> }

\* the recordings that show the two identities of cast
BoundaryRecordings(cast) ==
    {Recording(cast, 0, g0, l1, g1, l2, g2, tail) :
        tail \in {0, LongTail},
        g0 \in {0, 1}, l1 \in 1..MaxBlock, g1 \in 0..MaxBlock,
        l2 \in 0..MaxBlock, g2 \in {0, 1}}

\* longest recording searched with a cache loaded from a file
MaxLoaded == 6

\* the caches handed to the searches on a recording of n frames: empty, or
\* loaded from a file that holds an identity for the first or the second
\* frame
BoundaryCaches(n) ==
    {<< >>} \cup (IF n <= MaxLoaded THEN {StaleFile[2], StrKey(1) :> IdB} ELSE {})

InitBoundary ==
    /\ pc = "find_exact_start"
    /\ \E cast \in BoundaryCasts :
           /\ frames \in BoundaryRecordings(cast)
           /\ youtube_id \in {cast[1], cast[3]}
    /\ video = frames
    /\ total_frames = Len(frames)
    /\ frame_index \in {k \in 0..(Len(frames) - 1) : frames[k + 1] # Blank}
    /\ last_segment_end \in {-1, frame_index - 2, frame_index} \cap (-1..frame_index)
    /\ start = start_search_range(last_segment_end, frame_index)
    /\ end = frame_index
    /\ result = frame_index
    /\ raw_segments = << >>
    /\ last_title = EmptyStr
    /\ title = EmptyStr
    /\ current_frame = 0
    /\ last_matching_frame = 0
    /\ segment_start_frame = 0
    /\ segment_end_frame = 0
    /\ MergeIdle
    /\ cache \in BoundaryCaches(Len(frames))
    /\ cache_file = (IF cache = << >> THEN NoFile ELSE JsonFile(cache))
    /\ effects = << >>
    /\ PureIdle
    /\ StreamIdle

NextBoundary ==
    \/ StartProbe
    \/ StartReturn
    \/ EndStride
    \/ EndOfVideo
    \/ EndProbe
    \/ EndReturn

SpecBoundary == InitBoundary /\ [][NextBoundary]_vars

\* ------------------------------------------------------------------------
\* Specification of the judges and the extractor, each called once on an
\* argument list drawn from the inputs below
\* ------------------------------------------------------------------------

\* identities given to is_same_youtube_id
IdentityInputs ==
    {None,
     EmptyStr,
     <<"a">>,
     <<"a","b","c","d","e">>,
     <<"A","B","C","D","E">>,
     <<"a","b","c","d","e","X","Y">>,
     <<"z","z","z","z","z","z">>,
     <<"i","m","y","m","Q">>,
     <<"i","m","p","w","a","Z">>,
     <<"A","n","g","l","s","o","e","u","S","s">>,
     <<"A","n","y","l","b","e","u","s","s">>,
     <<"1","2","3","4","5">>}

\* titles given to is_similar_title
TitleInputs ==
    {None,
     EmptyStr,
     <<"N","o"," ","T","i","t","l","e">>,
     <<"N","o"," ","T","i","t","l","e","s">>,
     <<"N","o"," ","T","i","t","l">>,
     <<"C","a","t">>,
     <<"C","a","t","s">>,
     <<"D","o","g","!">>}

\* texts given to extract_youtube_id
TextInputs ==
    {None,
     EmptyStr,
     <<"N","o","n","e">>,
     <<"y","o","u","t","u","b","e">>,
     <<"Y","o","u","T","u","b","e",".","c","o","m">>,
     <<"1","2","3","4","5">>,
     <<"1","2","3","4">>,
     <<"a","b","c","d","e">>,
     <<"a","b","c","d">>,
     <<"a","1","_","-","b">>,
     <<"a","b"," ","c","d","e","1","2","3","4","5">>,
     <<"h","t","t","p","s",":","/","/","w","w","w",".","y","o","u","t","u","b","e",".","c","o","m","/","w","a","t","c","h","?","v","=","1","2","3","4","5","6","7","8","9","0","1">>,
     <<"y","o","u","t","u","b","e",".","c","o","m","/","w","a","t","c","h","?","v","=","d","Q","w","4","w","9","W","g","X","c","Q","&","t","=","1">>,
     <<"y","o","u","t","u",".","b","e","/","1","2","3","4","5","6","7">>,
     <<"y","o","u","t","u",".","b","e","/","a","b","c">>,
     <<"x"," ","v","=","1","2","3","4","5">>,
     <<"y","o","u","t","u","b","e",".","c","o","m","/","e","m","b","e","d","/","A","B","C","D","E","F","G","H","I","J","K">>,
     <<"y","o","u","t","u","b","e",".","c","o","m","/","v","/","0","1","2","3","4","5","6","7","8","9">>,
     <<"y","o","u","t","u","b","e","s">>,
     <<"y","o","u","t","u","b","e",".","c","o","m","/","u","s","e","r","/","a","/","b","/","A","B","C","D","E","F","G","H","I","J","K","9">>}

\* a call: <<function, arguments>>
Calls ==
    {<<"is_same_youtube_id", id1, id2>> : id1 \in IdentityInputs, id2 \in IdentityInputs}
        \cup {<<"is_similar_title", title1, title2>> : title1 \in TitleInputs, title2 \in TitleInputs}
        \cup {<<"extract_youtube_id", url>> : url \in TextInputs}

Idle ==
    UNCHANGED <<scanVars, mergeVars, merged_segments, filtered_segments, remerged,
                cacheVars, streamVars>>

CallIsSame ==
    /\ pc = "call"
    /\ call[1] = "is_same_youtube_id"
    /\ answer' = is_same_youtube_id(call[2], call[3])
    /\ pc' = "answered"
    /\ UNCHANGED call
    /\ Idle

CallIsSimilarTitle ==
    /\ pc = "call"
    /\ call[1] = "is_similar_title"
    /\ answer' = is_similar_title(call[2], call[3])
    /\ pc' = "answered"
    /\ UNCHANGED call
    /\ Idle

CallExtract ==
    /\ pc = "call"
    /\ call[1] = "extract_youtube_id"
    /\ answer' = extract_youtube_id(call[2])
    /\ pc' = "answered"
    /\ UNCHANGED call
    /\ Idle

InitJudge ==
    /\ pc = "call"
    /\ total_frames = 0
    /\ frames = << >>
    /\ video = << >>
    /\ ScanIdle
    /\ MergeIdle
    /\ CacheIdle
    /\ StreamIdle
    /\ call \in Calls
    /\ answer = Pending

NextJudge ==
    \/ CallIsSame
    \/ CallIsSimilarTitle
    \/ CallExtract

SpecJudge == InitJudge /\ [][NextJudge]_vars

\* ------------------------------------------------------------------------
\* Streaming detector (main_upgraded.py): OCR helper, similarity, extractor
\* ------------------------------------------------------------------------

interval_sec == 3

\* 0.7 as the fraction 7/10
similarity_threshold == <<7, 10>>

min_segment_sec == 5

\* a miss at a sample index that is a multiple of FLUSH_EVERY writes the cache
FLUSH_EVERY == 100

NONE_PLACEHOLDER == <<"_","_","N","O","N","E","_","_">>

\* re.sub(r"\s+", " ", s)
RECURSIVE collapse(_)
collapse(s) ==
    IF s = << >> THEN s
    ELSE IF s[1] \in Whitespace
         THEN <<" ">> \o collapse(SubSeq(s, 1 + RunLen(s, 1, Whitespace), Len(s)))
         ELSE <<s[1]>> \o collapse(Tail(s))

\* ocr_text on region (1: identity, 2: title) of sample index; the OCR engine
\* has not raised
ocr_text(index, region) == collapse(strip(video[index + 1][region]))

\* the element of a one-element set
Only(S) == CHOOSE x \in S : TRUE

\* cells 0..col of the row of the longest-common-subsequence table for a prefix
\* of a that ends with character c, given the row prev of the prefix before it
RECURSIVE LcsCells(_, _, _, _)
LcsCells(prev, c, b, col) ==
    IF col = 0 THEN <<0>>
    ELSE Only({Append(left, IF b[col] = c THEN prev[col] + 1
                            ELSE Max(prev[col + 1], left[col])) :
                  left \in {LcsCells(prev, c, b, col - 1)}})

\* the row of the table for the first n characters of a
RECURSIVE LcsRow(_, _, _)
LcsRow(a, b, n) ==
    IF n = 0 THEN [col \in 1..(Len(b) + 1) |-> 0]
    ELSE Only({LcsCells(prev, a[n], b, Len(b)) : prev \in {LcsRow(a, b, n - 1)}})

\* length of the longest common subsequence of a and b
Lcs(a, b) == LcsRow(a, b, Len(a))[Len(b) + 1]

\* rapidfuzz.fuzz.ratio(a, b) / 100.0: the normalized Indel similarity,
\* as a fraction (1 for two empty strings)
id_similarity(a, b) ==
    IF Len(a) + Len(b) = 0 THEN <<1, 1>>
    ELSE <<2 * Lcs(a, b), Len(a) + Len(b)>>

shorts == <<"y","o","u","t","u","b","e",".","c","o","m","/","s","h","o","r","t","s","/">>

\* \b stands before position p of s
WordBoundary(s, p) ==
    (p - 1 >= 1 /\ p - 1 <= Len(s) /\ s[p - 1] \in WordChars)
        # (p >= 1 /\ p <= Len(s) /\ s[p] \in WordChars)

\* the class [\w-]
TokenChars == WordChars \cup {"-"}

\* \b([\w-]{11})\b matches at position p of s
TokenAt(s, p) ==
    /\ WordBoundary(s, p)
    /\ p + 10 <= Len(s)
    /\ \A k \in p..(p + 10) : s[k] \in TokenChars
    /\ WordBoundary(s, p + 11)

\* position of the group of
\* (?:youtu\.be/|youtube\.com/(?:watch\?v=|shorts/|embed/|v/))([\w-]{11})
\* matched at position p of s, or 0
LinkAt(s, p) ==
    LET links == <<youtu_be, watch_v, shorts, embed, old_embed>>
        ks == {k \in 1..Len(links) :
                  /\ LitAt(s, p, links[k])
                  /\ RunLen(s, p + Len(links[k]), TokenChars) >= 11}
    IN  IF ks = {} THEN 0 ELSE p + Len(links[CHOOSE k \in ks : TRUE])

\* the least position of a non-empty set of positions
Leftmost(positions) == CHOOSE p \in positions : \A q \in positions : p <= q

\* extract_youtube_id of main_upgraded.py: the group of the leftmost match of
\* the first pattern that matches
upgraded_extract_youtube_id(text) ==
    LET linked == {p \in 1..Len(text) : LinkAt(text, p) > 0}
        tokens == {p \in 1..Len(text) : TokenAt(text, p)}
    IN  IF linked # {}
        THEN SubSeq(text, LinkAt(text, Leftmost(linked)), LinkAt(text, Leftmost(linked)) + 10)
        ELSE IF tokens # {}
        THEN SubSeq(text, Leftmost(tokens), Leftmost(tokens) + 10)
        ELSE None

\* ------------------------------------------------------------------------
\* Streaming detector (main_upgraded.py): detect_segments, run twice over
\* the same recording
\* ------------------------------------------------------------------------

\* the key of a cache entry made by detect_segments: the int idx
IntKey(index) == <<"int", index>>

\* the sample indexes a cache has an entry for, under either kind of key
CachedIndexes(c) == {key[2] : key \in DOMAIN c}

\* the JSON object json.dumps(cache) writes: every key becomes a string, every
\* value a list; of two keys that become the same string the later one, the
\* int key, is the one json.loads keeps
json_dumps(c) ==
    [key \in {StrKey(index) : index \in CachedIndexes(c)} |->
        LET entry == IF IntKey(key[2]) \in DOMAIN c THEN c[IntKey(key[2])] ELSE c[key]
        IN  <<"list", entry[2], entry[3]>>]

\* json.loads(cfg.cache_file.read_text()) if cfg.cache_file.exists() else {}
json_loads(file) == IF file[1] = "json" THEN file[2] ELSE << >>

\* idx in cache
StreamHit == IntKey(idx) \in DOMAIN cache

\* the OCR engine raises on a region of the sample
StreamRaises == \E region \in {1, 2} : video[idx + 1][region] = OcrFails

\* seconds of the sample
ts == idx * interval_sec

url_text == IF StreamHit THEN cache[IntKey(idx)][2] ELSE ocr_text(idx, 1)

title_text == IF StreamHit THEN cache[IntKey(idx)][3] ELSE ocr_text(idx, 2)

\* extract_youtube_id(url_text) or "__NONE__"
yid ==
    IF upgraded_extract_youtube_id(url_text) \in {None, EmptyStr}
    THEN NONE_PLACEHOLDER
    ELSE upgraded_extract_youtube_id(url_text)

\* a Segment: <<vid, start_sec, end_sec, title>>
Segment(vid, start_sec, end_sec, seg_title) == <<vid, start_sec, end_sec, seg_title>>

\* a test that also keeps the spans without identity
SegmentKept_any_identity(vid, duration) == duration >= min_segment_sec

\* if current_id != "__NONE__" and seg_end - seg_start >= cfg.min_segment_sec
SegmentKept(vid, duration) == vid # NONE_PLACEHOLDER /\ duration >= min_segment_sec

\* everything detect_segments leaves alone
StreamFrame ==
    UNCHANGED <<scanVars, caller, sorted_segments, i, j, curr, merged_count,
                all_merged_segments, merged_segments, filtered_segments, remerged,
                pureVars>>

\* detect_segments up to its loop
StreamLoad ==
    /\ pc = "detect_segments"
    /\ ~ParseFails(cache_file)
    /\ cache' = json_loads(cache_file)
    /\ segments' = << >>
    /\ current_id' = None
    /\ current_title' = EmptyStr
    /\ seg_start' = 0
    /\ idx' = 0
    /\ pc' = "stream_loop"
    /\ UNCHANGED <<cache_file, effects, run>>
    /\ StreamFrame

\* json.loads raises on the cache file: nothing catches the exception, it
\* leaves detect_segments and main before the first sample is read
StreamLoadRaise ==
    /\ pc = "detect_segments"
    /\ ParseFails(cache_file)
    /\ pc' = "load_raised"
    /\ UNCHANGED <<cacheVars, segments, streamVars>>
    /\ StreamFrame

\* one turn of the loop of detect_segments
StreamSample ==
    /\ pc = "stream_loop"
    /\ idx < total_frames
    /\ StreamHit \/ ~StreamRaises
    /\ cache' = IF StreamHit THEN cache
                ELSE cache @@ (IntKey(idx) :> <<"tuple", url_text, title_text>>)
    /\ cache_file' = IF ~StreamHit /\ idx % FLUSH_EVERY = 0
                     THEN JsonFile(json_dumps(cache'))
                     ELSE cache_file
    /\ effects' = effects
                    \o (IF StreamHit THEN << >> ELSE <<<<idx, "url">>, <<idx, "title">>>>)
                    \o (IF ~StreamHit /\ idx % FLUSH_EVERY = 0
                        THEN <<<<idx, "write">>>> ELSE << >>)
    /\ IF current_id = None
       THEN /\ current_id' = yid
            /\ current_title' = title_text
            /\ seg_start' = ts
            /\ UNCHANGED segments
       ELSE IF RatioGeq(id_similarity(current_id, yid), similarity_threshold)
       THEN UNCHANGED <<current_id, current_title, seg_start, segments>>
       ELSE /\ segments' = IF SegmentKept(current_id, ts - seg_start)
                           THEN Append(segments, Segment(current_id, seg_start, ts, current_title))
                           ELSE segments
            /\ current_id' = yid
            /\ current_title' = title_text
            /\ seg_start' = ts
    /\ idx' = idx + 1
    /\ UNCHANGED <<pc, run>>
    /\ StreamFrame

\* the OCR engine raises in ocr_text: nothing catches the exception, it leaves
\* detect_segments and main
StreamRaise ==
    /\ pc = "stream_loop"
    /\ idx < total_frames
    /\ ~StreamHit
    /\ StreamRaises
    /\ effects' = effects \o (IF video[idx + 1][1] = OcrFails
                              THEN <<<<idx, "url">>>>
                              ELSE <<<<idx, "url">>, <<idx, "title">>>>)
    /\ pc' = "stream_raised"
    /\ UNCHANGED <<cache, cache_file, segments, streamVars>>
    /\ StreamFrame

\* the recording is over: the cache is written and the segments are returned
StreamReturn ==
    /\ pc = "stream_loop"
    /\ idx = total_frames
    /\ cache_file' = JsonFile(json_dumps(cache))
    /\ effects' = effects \o <<<<idx, "write">>>>
    /\ pc' = "stream_returned"
    /\ UNCHANGED <<cache, segments, streamVars>>
    /\ StreamFrame

\* the program is started again on the same recording, with the cache file
\* the first run left
StreamAgain ==
    /\ pc \in {"stream_returned", "stream_raised"}
    /\ run = 1
    /\ run' = 2
    /\ effects' = << >>
    /\ pc' = "detect_segments"
    /\ UNCHANGED <<cache, cache_file, segments, idx, current_id, current_title, seg_start>>
    /\ StreamFrame

\* longest recording of the streaming detector, in samples
MaxSamples == 5

StreamIdA == <<"d","Q","w","4","w","9","W","g","X","c","Q">>

\* what the OCR engine reads on a sample: <<identity region, title region>>
StreamFrames ==
    { Blank,
      <<StreamIdA, TitleCat>>,
      <<<<" ","d","Q","w","4","w","9","W","g","X","c","O","\n">>, TitleCat>>,
      <<youtu_be \o IdRun \o <<"K">>, <<"D","o","g"," "," ","!">>>>,
      <<OcrFails, EmptyStr>>,
      <<StreamIdA, OcrFails>> }

StreamRecordings ==
    UNION {[1..n -> StreamFrames] : n \in 0..MaxSamples}

InitStream ==
    /\ pc = "detect_segments"
    /\ video \in StreamRecordings
    /\ frames = << >>
    /\ total_frames = Len(video)
    /\ ScanIdle
    /\ MergeIdle
    /\ cache = << >>
    /\ cache_file \in {NoFile, Unparsable}
    /\ effects = << >>
    /\ PureIdle
    /\ StreamIdle

NextStream ==
    \/ StreamLoad
    \/ StreamLoadRaise
    \/ StreamSample
    \/ StreamRaise
    \/ StreamReturn
    \/ StreamAgain
    \/ cleanup_directories

SpecStream == InitStream /\ [][NextStream]_vars

\* ------------------------------------------------------------------------
\* Properties of the merger (SpecMerge)
\* ------------------------------------------------------------------------

\* the merger has returned to find_youtube_segments
Merged == pc = "returned"

\* segs is sorted by start time and each segment starts after the one before ends
OrderedDisjoint(segs) ==
    \A k \in 1..(Len(segs) - 1) :
        /\ segs[k][2] <= segs[k + 1][2]
        /\ segs[k + 1][2] > segs[k][3]

\* segs is sorted by start time
OrderedByStart(segs) ==
    \A k \in 1..(Len(segs) - 1) : segs[k][2] <= segs[k + 1][2]

\* no two segments of segs overlap: of any two, one ends before the other starts
NoOverlap(segs) ==
    \A a, b \in 1..Len(segs) :
        a # b => segs[a][3] < segs[b][2] \/ segs[b][3] < segs[a][2]

\* C1: for every list of raw segments the merger returns segments sorted by
\* start_sec with start_sec(i+1) > end_sec(i) for every adjacent pair.
C1_AnyListDisjoint == Merged => OrderedDisjoint(merged_segments)

\* what the merger does ensure: its result is sorted by start_sec for every
\* list, and when no two raw segments of the list overlap, every segment of
\* the result starts after the one before it ends
DisjointInputDisjointOutput ==
    Merged =>
        /\ OrderedByStart(merged_segments)
        /\ NoOverlap(segments) => OrderedDisjoint(merged_segments)

\* C2: the merger run on the list it returned returns that same list.
C2_Idempotent ==
    pc \in {"returned_again", "ValueError"} =>
        pc = "returned_again" /\ remerged = merged_segments

\* the next segment looked at by the inner loop
NextSeg == sorted_segments[j + 1]

\* the inner loop is about to look at a next segment
Considering == pc = "inner" /\ j < Len(sorted_segments) /\ Len(NextSeg) = 6

\* the condition C3 gives for a merge
C3_Condition ==
    /\ NextSeg[2] - curr[3] <= MAX_GAP_SECONDS
    /\ \/ is_same_youtube_id(curr[1], NextSeg[1])
       \/ is_similar_title(curr[4], NextSeg[4])

\* C3: the next segment is merged into the accumulator exactly when its start
\* is at most max_gap_seconds after the accumulator's end and the identities
\* or the titles match; otherwise the accumulator is closed and a new one is
\* started from the next segment.  The two segments of the example become
\* one segment from 0 to 200.
C3_MergeIff ==
    /\ [][Considering =>
            IF C3_Condition
            THEN /\ pc' = "inner"
                 /\ j' = j + 1
                 /\ merged_count' = merged_count + 1
                 /\ curr'[2] = curr[2]
                 /\ all_merged_segments' = all_merged_segments
            ELSE /\ pc' = "close"
                 /\ curr' = curr
                 /\ j' = j]_vars
    /\ [][pc = "close" =>
            /\ all_merged_segments' =
                   Append(all_merged_segments, <<curr[1], curr[2], curr[3], curr[4]>>)
            /\ i' = j]_vars
    /\ [][(pc = "outer" /\ pc' = "inner") => curr' = sorted_segments[i + 1]]_vars
    /\ [](Merged /\ segments = ExampleList =>
            /\ Len(merged_segments) = 1
            /\ merged_segments[1][2] = 0
            /\ merged_segments[1][3] = 200)

\* the two segments of the example were merged into one
C3_Witness ==
    /\ Merged
    /\ segments = ExampleList
    /\ Len(merged_segments) = 1

\* C4: on a merge the accumulator's end becomes max(current.end, next.end),
\* so the end of a merged segment never decreases.
C4_EndIsMax ==
    [][(Considering /\ pc' = "inner") =>
            /\ curr'[3] = Max(curr[3], NextSeg[3])
            /\ curr'[3] >= curr[3]]_vars

\* of two strings, one that is at least as long as the other
LongerOf(a, b, r) ==
    /\ r \in {a, b}
    /\ Len(r) >= Len(a)
    /\ Len(r) >= Len(b)

\* C5: on a merge the identity kept is the longer of the two
\* identities and the title kept is the longer of the two titles.
C5_LongerWins ==
    [][(Considering /\ pc' = "inner") =>
            /\ LongerOf(curr[1], NextSeg[1], curr'[1])
            /\ LongerOf(curr[4], NextSeg[4], curr'[4])]_vars

\* C5, amended: on a merge the identity kept is the longer of the two
\* identities (the current one when they are as long); the title kept is the
\* next title when it is longer than the current one and made only of word
\* characters, white space and []()-+.,;:!? and the current title otherwise.
C5_LongerCleanTitleWins ==
    [][(Considering /\ pc' = "inner") =>
            /\ curr'[1] = IF Len(NextSeg[1]) > Len(curr[1]) THEN NextSeg[1] ELSE curr[1]
            /\ curr'[4] = IF /\ Len(NextSeg[4]) > Len(curr[4])
                             /\ \A k \in 1..Len(NextSeg[4]) : NextSeg[4][k] \in CleanTitleChars
                          THEN NextSeg[4]
                          ELSE curr[4]]_vars

\* a merge took the longer identity and kept the shorter title, the longer
\* one holding a character that is not clean
C5_Witness ==
    /\ pc = "inner"
    /\ merged_count = 2
    /\ curr[1] = sorted_segments[2][1]
    /\ Len(sorted_segments[2][1]) > Len(sorted_segments[1][1])
    /\ curr[4] = sorted_segments[1][4]
    /\ Len(sorted_segments[2][4]) > Len(sorted_segments[1][4])

\* ------------------------------------------------------------------------
\* Properties of the detection run (Spec)
\* ------------------------------------------------------------------------

\* end - start of a merged segment
Duration(seg) == seg[3] - seg[2]

\* C6: the final list holds no segment shorter than min_segment_duration; it
\* is the merged list without its segments shorter than the minimum, every
\* other one kept in place (a segment of 3 s is dropped at a minimum of 5).
C6_ShortDropped ==
    pc = "done" =>
        /\ \A k \in 1..Len(filtered_segments) :
               Duration(filtered_segments[k]) >= MIN_SEGMENT_DURATION
        /\ filtered_segments =
               SelectSeq(merged_segments, LAMBDA seg : Duration(seg) >= MIN_SEGMENT_DURATION)

\* the run ended with a merged segment of 3 s that the final list lacks and
\* a longer one that it holds
C6_Witness ==
    /\ pc = "done"
    /\ \E k \in 1..Len(merged_segments) :
           /\ Duration(merged_segments[k]) = 3
           /\ \A m \in 1..Len(filtered_segments) : filtered_segments[m] # merged_segments[k]
    /\ filtered_segments # << >>

\* C7: every segment the merger returns to the run, and every segment of the
\* final list, starts before it ends.
C7_StartBeforeEnd ==
    /\ pc \in {"returned", "done"} =>
           \A k \in 1..Len(merged_segments) : merged_segments[k][2] < merged_segments[k][3]
    /\ pc = "done" =>
           \A k \in 1..Len(filtered_segments) : filtered_segments[k][2] < filtered_segments[k][3]

\* the run ended with two merged segments, one of them in the final list
C7_Witness ==
    /\ pc = "done"
    /\ Len(merged_segments) >= 2
    /\ filtered_segments # << >>

\* the low end of the window C9 gives for the start search
WindowLow == Max(last_segment_end + 1, frame_index - LOOKBACK_FRAMES)

\* C9: the start search probes and returns only samples from
\* max(last_segment_end + 1, i - lookback) to the originating sample i, so
\* none inside the previous segment and none further back than the lookback.
C9_StartInWindow ==
    /\ pc = "find_exact_start" =>
           /\ WindowLow <= start
           /\ end <= frame_index
           /\ result \in WindowLow..frame_index
           /\ start <= end => Mid \in WindowLow..frame_index
    /\ pc \in {"find_segment_end", "find_end_search", "buffer"} =>
           segment_start_frame \in WindowLow..frame_index

\* a start was located for a second segment less than a lookback after the
\* first one
C9_Witness ==
    /\ pc = "find_segment_end"
    /\ raw_segments # << >>
    /\ last_segment_end + 1 > frame_index - LOOKBACK_FRAMES
    /\ segment_start_frame > last_segment_end

\* a start was located for a segment found more than a lookback into the
\* recording, at the low end of the window
C9_WitnessLookback ==
    /\ pc = "find_segment_end"
    /\ frame_index - LOOKBACK_FRAMES > last_segment_end + 1
    /\ segment_start_frame < frame_index

\* the identity of the frame after the exact end, None past the last frame
NextIdentity ==
    IF segment_end_frame + 1 < total_frames THEN IdAt(segment_end_frame + 1) ELSE None

\* the identity of the frame after the exact end is another one than the
\* segment's: is_same_youtube_id rejects it as the end search asks (the
\* identity of the frame first, line 461) or as the buffer test asks (the
\* identity of the segment first, line 525)
DifferentIdentity ==
    /\ NextIdentity # None
    /\ \/ ~is_same_youtube_id(NextIdentity, youtube_id)
       \/ ~is_same_youtube_id(youtube_id, NextIdentity)

\* C10: when the frame after the exact end e carries a different identity,
\* the segment ends at e with no buffer; when it carries none, the segment
\* ends at min(e + 5, last frame).  The end is what the raw segment records
\* and where the scan goes on.
C10_EndBuffer ==
    [][pc = "buffer" =>
           LET e == segment_end_frame
               ends_at(f) ==
                   /\ last_segment_end' = f
                   /\ frame_index' = f + 1
                   /\ raw_segments' # raw_segments =>
                          raw_segments'[Len(raw_segments')][6] = f
           IN  /\ DifferentIdentity => ends_at(e)
               /\ NextIdentity = None
                      => ends_at(Min(e + 5, total_frames - 1))]_vars

\* ------------------------------------------------------------------------
\* Properties of the boundary locator (SpecLocate)
\* ------------------------------------------------------------------------

\* C8: entered at any sample of the run of "ABCDE12345" from sample 10 to
\* sample 40, in a recording of any length, the locator reports the start 10
\* and an end from 40 to 40 plus the end buffer.
C8_RunLocated ==
    raw_segments # << >> =>
        /\ raw_segments[1][5] = RunFirst
        /\ raw_segments[1][6] \in RunLast..(RunLast + END_BUFFER_FRAMES)

\* ------------------------------------------------------------------------
\* Coverage of the scan (Spec)
\* ------------------------------------------------------------------------

\* the identity the frame shows, read without the cache
Shown(index) == extract_youtube_id(UrlOrText(text_of_video(index)))

\* C12: when the scan is over, every frame of every run of frames that
\* shows an identity lies in some raw segment the scan recorded.
C12_RunsCovered ==
    pc = "done" =>
        \A k \in 0..(total_frames - 1) :
            Shown(k) # None =>
                \E n \in 1..Len(raw_segments) :
                    raw_segments[n][5] <= k /\ k <= raw_segments[n][6]

\* ------------------------------------------------------------------------
\* The OCR cache of the scan (Spec)
\* ------------------------------------------------------------------------

\* the frame the next step of the scan asks get_youtube_id_from_frame for,
\* -1 when the next step reads no frame
Queried ==
    CASE pc = "scan" /\ frame_index < total_frames -> frame_index
      [] pc \in {"find_exact_start", "find_end_search"} /\ start <= end -> Mid
      [] pc = "find_segment_end" /\ current_frame < total_frames -> current_frame
      [] pc = "buffer" /\ segment_end_frame + 1 < total_frames -> segment_end_frame + 1
      [] OTHER -> -1

\* C17: a query for a frame the cache holds leaves the cache as it is and
\* calls the OCR for neither region of the frame.
C17_HitCallsNoOcr ==
    [][(Queried >= 0 /\ StrKey(Queried) \in DOMAIN cache) =>
           /\ cache' = cache
           /\ effects' = effects]_vars

\* the entry p of effects is the OCR of an identity region: a cache miss
MissAt(p) == effects[p][2] = "url"

\* the cache file was written for the miss at p, before any later miss
WroteFor(p) ==
    \E w \in (p + 1)..Len(effects) :
        /\ effects[w][2] = "write"
        /\ \A m \in (p + 1)..w : ~MissAt(m)

\* C19: the cache file is not written after every new entry: of two cache
\* misses that follow each other, at most one writes the cache file.
C19_NoWriteOnEveryMiss ==
    \A p, q \in 1..Len(effects) :
        (/\ p < q
         /\ MissAt(p)
         /\ MissAt(q)
         /\ \A m \in (p + 1)..(q - 1) : ~MissAt(m))
            => ~(WroteFor(p) /\ WroteFor(q))


\* ------------------------------------------------------------------------
\* Properties of the judges and the extractor (SpecJudge)
\* ------------------------------------------------------------------------

Answered(name) == pc = "answered" /\ call[1] = name

\* C13: is_same_youtube_id answers true for (x, x) whenever x is not None,
\* and false whenever one of its arguments is None, (None, None) included
C13_ReflexiveNoneFalse ==
    Answered("is_same_youtube_id") =>
        /\ (call[2] # None /\ call[2] = call[3]) => answer = TRUE
        /\ (call[2] = None \/ call[3] = None) => answer = FALSE

C13_Witness ==
    /\ Answered("is_same_youtube_id")
    /\ call[2] = None
    /\ call[3] = None
    /\ answer = FALSE

C13_WitnessSame ==
    /\ Answered("is_same_youtube_id")
    /\ call[2] # None
    /\ call[2] = call[3]
    /\ answer = TRUE

\* a title that is empty or the "No Title" sentinel
EmptyOrSentinel(x) == ~Truthy(x) \/ x = NoTitle

\* C14: is_similar_title answers false whenever one of the titles is empty
\* or the "No Title" sentinel, both titles being the sentinel included
C14_SentinelNeverSimilar ==
    (Answered("is_similar_title") /\ (EmptyOrSentinel(call[2]) \/ EmptyOrSentinel(call[3])))
        => answer = FALSE

\* C15: is_similar_title answers false when exactly one of the titles is the
\* "No Title" sentinel, whichever argument it is
C15_OneSentinelFalse ==
    (Answered("is_similar_title") /\ ((call[2] = NoTitle) # (call[3] = NoTitle)))
        => answer = FALSE

C15_Witness ==
    /\ Answered("is_similar_title")
    /\ call[2] = NoTitle
    /\ Truthy(call[3])
    /\ call[3] # NoTitle
    /\ RatioGeq(calculate_similarity(call[2], call[3]), SIMILARITY_THRESHOLD)
    /\ answer = FALSE

\* C16: extract_youtube_id returns None or a token of at least five
\* characters, one of them a letter, that is not the word "youtube"
C16_TokenHasLetter ==
    Answered("extract_youtube_id") =>
        \/ answer = None
        \/ /\ Len(answer) >= 5
           /\ \E k \in 1..Len(answer) : answer[k] \in Letters
           /\ lower(answer) # youtube


\* ------------------------------------------------------------------------
\* Properties of the streaming detector (SpecStream)
\* ------------------------------------------------------------------------

\* seconds of the last sample of the recording
LastSampleSec == (total_frames - 1) * interval_sec

\* C11: when detect_segments returns while an identity is displayed, shown
\* since seg_start and for at least min_segment_sec, the returned list holds
\* a segment of that identity from seg_start to the last sample
C11_OpenRunReported ==
    (/\ pc = "stream_returned"
     /\ current_id \notin {None, NONE_PLACEHOLDER}
     /\ LastSampleSec - seg_start >= min_segment_sec)
        => \E n \in 1..Len(segments) :
               /\ segments[n][1] = current_id
               /\ segments[n][2] = seg_start
               /\ segments[n][3] >= LastSampleSec

\* C18: in a run that starts with the cache file of an earlier run, no OCR
\* call is made for a sample index the file has an entry for
C18_PersistedServed ==
    run = 2 =>
        \A p \in 1..Len(effects) :
            effects[p][2] \in {"url", "title"} => StrKey(effects[p][1]) \notin DOMAIN cache

\* C20: the run is never ended by an exception of the OCR engine
C20_OcrFailureSurvived == pc # "stream_raised"


\* C21: a cache file that cannot be parsed never ends the run: the run goes
\* on with an empty cache
C21_CorruptCacheSurvived == pc # "load_raised"


\* C22: the OCR of the title region is called at most once for an identity:
\* no two title calls of a run are made on frames that show the same identity
C22_TitleOncePerIdentity ==
    \A p, q \in 1..Len(effects) :
        (p < q /\ effects[p][2] = "title" /\ effects[q][2] = "title")
            => Shown(effects[p][1]) # Shown(effects[q][1])


\* ------------------------------------------------------------------------
\* Properties of the boundary searches (SpecBoundary)
\* ------------------------------------------------------------------------

\* the identity get_youtube_id_from_frame finds for the frame: that of the
\* cache entry of the frame when there is one, else that of the frame
Seen(index) ==
    IF StrKey(index) \in DOMAIN cache
    THEN extract_youtube_id(cache[StrKey(index)])
    ELSE Shown(index)

\* the frame exists and get_youtube_id_from_frame finds an identity on it
\* that matches the target
Matches(index) == FrameExists(index) /\ is_same_youtube_id(Seen(index), youtube_id)

\* the frames read so far
Probed == {effects[p][1] : p \in {q \in 1..Len(effects) : effects[q][2] = "url"}}

\* the samples the binary search of find_exact_start probes in the window
\* from low to high: the middle, then the half below it when it matches and
\* the half above it when it does not
RECURSIVE StartProbes(_, _)
StartProbes(low, high) ==
    IF low > high THEN {}
    ELSE LET mid == (low + high) \div 2
         IN  {mid} \cup (IF Matches(mid)
                         THEN StartProbes(low, mid - 1)
                         ELSE StartProbes(mid + 1, high))

\* C23: find_exact_start returns a sample of the recording, and the
\* originating sample when its window is empty or none of its probes
\* matched; find_segment_end returns a sample from that start to the last
\* sample of the recording.  Neither search has a step that raises.
C23_LocatorReturns ==
    [][/\ (pc = "find_exact_start" /\ pc' = "find_segment_end") =>
              /\ segment_start_frame' \in 0..(total_frames - 1)
              /\ (WindowLow > frame_index
                      \/ \A k \in StartProbes(WindowLow, frame_index) : ~Matches(k))
                     => segment_start_frame' = frame_index
       /\ (pc \in {"find_segment_end", "find_end_search"} /\ pc' = "buffer") =>
              /\ segment_start_frame <= segment_end_frame'
              /\ segment_end_frame' <= total_frames - 1]_vars

\* both searches returned after a start search on an empty window
C23_Witness ==
    /\ pc = "buffer"
    /\ WindowLow > frame_index
    /\ segment_start_frame = frame_index
    /\ segment_end_frame >= segment_start_frame

\* both searches returned after a start search none of whose probes matched
C23_WitnessNoMatch ==
    /\ pc = "buffer"
    /\ WindowLow < frame_index
    /\ \A k \in WindowLow..frame_index : ~Matches(k)
    /\ segment_start_frame = frame_index
    /\ segment_end_frame = frame_index


\* the samples from low to high that match the target identity
Matching(low, high) == {k \in low..high : Matches(k)}

\* C24: when the match predicate is monotonic over the window, false up to
\* some sample and true from it on, find_exact_start returns the smallest
\* matching sample of the window; when it is monotonic over the bracket of
\* find_segment_end, true up to some sample and false after it, the binary
\* search returns the largest matching sample of the bracket
C24_MonotoneExact ==
    [][/\ (/\ pc = "find_exact_start" /\ pc' = "find_segment_end"
           /\ Matching(WindowLow, frame_index) # {}
           /\ \A a \in Matching(WindowLow, frame_index) :
                  \A b \in a..frame_index : Matches(b))
          => /\ segment_start_frame' \in Matching(WindowLow, frame_index)
             /\ \A k \in Matching(WindowLow, frame_index) : segment_start_frame' <= k
       /\ (/\ pc = "find_end_search" /\ pc' = "buffer"
           /\ Matching(last_matching_frame, current_frame) # {}
           /\ \A b \in Matching(last_matching_frame, current_frame) :
                  \A a \in last_matching_frame..b : Matches(a))
          => /\ segment_end_frame' \in Matching(last_matching_frame, current_frame)
             /\ \A k \in Matching(last_matching_frame, current_frame) :
                    k <= segment_end_frame']_vars

\* both searches moved: the start found lies below the originating sample in
\* a monotonic window and the end found above the last matching stride sample
C24_Witness ==
    /\ pc = "buffer"
    /\ current_frame < total_frames
    /\ Matching(WindowLow, frame_index) # {}
    /\ \A a \in Matching(WindowLow, frame_index) : \A b \in a..frame_index : Matches(b)
    /\ \E k \in WindowLow..frame_index : ~Matches(k)
    /\ segment_start_frame < frame_index
    /\ \A b \in Matching(last_matching_frame, current_frame) :
           \A a \in last_matching_frame..b : Matches(a)
    /\ segment_end_frame > last_matching_frame
    /\ \A k \in Matching(last_matching_frame, current_frame) : k <= segment_end_frame


\* ------------------------------------------------------------------------
\* Properties of the raw segments and of the progress of the scan (Spec)
\* ------------------------------------------------------------------------

\* C25: whatever the OCR returns, within a run of the program the raw
\* segments are strictly increasing and pairwise disjoint in frames: each has
\* 0 <= start_frame <= end_frame <= total_frames - 1, each starts after the
\* buffered end of the segment before it and after last_segment_end,
\* last_segment_end never decreases, and the scan goes on at the buffered
\* end + 1
C25_RawSegmentsDisjoint ==
    [][\/ RunProgram
       \/ /\ \A k \in 1..Len(raw_segments') :
                 /\ 0 <= raw_segments'[k][5]
                 /\ raw_segments'[k][5] <= raw_segments'[k][6]
                 /\ raw_segments'[k][6] <= total_frames - 1
          /\ \A k \in 1..(Len(raw_segments') - 1) :
                 raw_segments'[k + 1][5] > raw_segments'[k][6]
          /\ last_segment_end' >= last_segment_end
          /\ pc = "buffer" =>
                 /\ segment_start_frame > last_segment_end
                 /\ last_segment_end' >= segment_end_frame
                 /\ frame_index' = last_segment_end' + 1
                 /\ raw_segments' # raw_segments =>
                        raw_segments'[Len(raw_segments')][6] = last_segment_end']_vars

\* two raw segments were recorded, the second one frame after a first that
\* was buffered
C25_Witness ==
    /\ pc = "scan"
    /\ Len(raw_segments) = 2
    /\ raw_segments[1][6] > raw_segments[1][5]
    /\ raw_segments[2][5] = raw_segments[1][6] + 1
    /\ frame_index = raw_segments[2][6] + 1


\* the frames the scan loop still has to reach
ScanLeft == Max(0, total_frames - frame_index)

\* the frames the coarse stride still has to reach
StrideLeft == Max(0, total_frames - current_frame)

\* the samples left in the bracket of a binary search
BracketLeft == Max(0, end - start + 1)

\* C26: the scan terminates: no step is taken without a loop that can take
\* it, every turn of the scan loop strictly increases frame_index, every jump
\* of the coarse stride strictly increases current_frame and every probe of
\* either binary search shrinks its bracket, so that each loop runs out of
\* frames after finitely many steps
C26_ScanTerminates ==
    [][/\ (pc = "scan" /\ pc' # "merge")
              => /\ ScanLeft > 0
                 /\ pc' = "scan" => (frame_index' > frame_index /\ ScanLeft' < ScanLeft)
       /\ pc = "buffer"
              => (pc' = "scan" /\ frame_index' > frame_index /\ ScanLeft' < ScanLeft)
       /\ (pc = "find_segment_end" /\ pc' = "find_segment_end")
              => (current_frame' > current_frame /\ StrideLeft' < StrideLeft)
       /\ (pc \in {"find_exact_start", "find_end_search"} /\ pc' = pc)
              => /\ start <= Mid /\ Mid <= end
                 /\ end' - start' < end - start
                 /\ BracketLeft' < BracketLeft]_vars

\* C27: the end returned by find_segment_end is the start sample itself or a
\* sample that was probed and matched the target identity; in particular the
\* last sample returned after the stride ran past the end matches it
C27_EndWasMatched ==
    pc = "buffer" =>
        \/ segment_end_frame = segment_start_frame
        \/ segment_end_frame \in Probed /\ Matches(segment_end_frame)


\* C28: is_same_youtube_id is symmetric: the answer does not depend on the
\* order of the two identities
C28_SameIdSymmetric ==
    Answered("is_same_youtube_id") => answer = is_same_youtube_id(call[3], call[2])


\* C29: the list of detect_segments is ordered and free of overlaps, the end
\* of each segment being at most the start of the next; no segment has the
\* placeholder "__NONE__" as identity and none is shorter than
\* min_segment_sec
C29_StreamSegmentsOrdered ==
    /\ \A n \in 1..Len(segments) :
           /\ segments[n][1] # NONE_PLACEHOLDER
           /\ segments[n][3] - segments[n][2] >= min_segment_sec
    /\ \A n \in 1..(Len(segments) - 1) : segments[n][3] <= segments[n + 1][2]

\* a returned list of two segments of different identities, the second
\* starting where the first ends
C29_Witness ==
    /\ pc = "stream_returned"
    /\ Len(segments) = 2
    /\ segments[1][1] # segments[2][1]
    /\ segments[2][2] = segments[1][3]


\* every identity is shown on one contiguous run of frames
FlickerFree ==
    \A a, c \in 0..(total_frames - 1) :
        (a < c /\ Shown(a) # None /\ Shown(c) = Shown(a))
            => \A b \in a..c : Shown(b) = Shown(a)

\* C30: when the OCR is free of flicker, no raw segment covers, from its
\* start_frame to its buffered end, a frame that shows another identity
C30_NoForeignIdentity ==
    (raw_segments # << >> /\ FlickerFree) =>
        \A n \in 1..Len(raw_segments) :
            \A k \in raw_segments[n][5]..raw_segments[n][6] :
                \/ Shown(k) = None
                \/ is_same_youtube_id(raw_segments[n][1], Shown(k))
                \/ is_same_youtube_id(Shown(k), raw_segments[n][1])

=============================================================================
